---- MODULE Spec2Model ----
(***************************************************************************)
(* Model of src/opentelemetry/sdk/extension/prometheus_multiprocess/       *)
(* provider.py: PrometheusMeterProvider, PrometheusMeter, the instrument   *)
(* adapters (PrometheusCounter, PrometheusUpDownCounter, PrometheusGauge,  *)
(* PrometheusHistogram) and the name sanitizer.                            *)
(*                                                                         *)
(* Several threads call into one provider.  Every `with lock:` block and   *)
(* every call into a collaborating library is one atomic step; the steps   *)
(* of one call are interleaved freely with the steps of the other threads. *)
(*                                                                         *)
(* Strings whose characters matter (instrument names, units) are sequences *)
(* of one-character strings.  Python's None is the string "None" where a   *)
(* scope field may be absent.                                              *)
(***************************************************************************)
EXTENDS Integers, Sequences, FiniteSets, TLC

(***************************************************************************)
(* Bounds of the model.                                                    *)
(***************************************************************************)
\* Calls (get_meter, create_*, add/set/record) started in one behaviour.
MaxCalls == 3
\* Length of the strings the name sanitizer is applied to in SpecSanitize.
MaxLen == 3

Threads == {"t1", "t2"}

\* Values of get_meter's arguments.
MeterNames == {"None", "", "m"}
Versions == {"None", "1"}
SchemaUrls == {"None"}

\* Values of create_*'s arguments.
InstrumentNames == {<<"a", ".", "b">>, <<"a", "#", "b">>}
Units == {<<>>, <<"s">>}
Descriptions == {""}

\* Values of the amount argument of add, set and record.
Amounts == {-5, 0, 7, 5000, 10001}

\* Characters of the strings given to the sanitizer in SpecSanitize.
Alphabet == {"a", "1", "_", ".", "#"}

\* Values of the attributes argument of add, set and record in SpecRecord:
\* None and two label sets.
Attributes == {"None", "k=1", "k=2"}

\* Label values of the shards of the sharded backend metric (one shard per
\* value), kinds of child and values a child may hold.
LabelValues == {"1", "2"}
ChildKinds == {"gauge", "histogram"}
ChildValues == {3, 4}

(***************************************************************************)
(* Strings.                                                                *)
(***************************************************************************)
\* The characters the regular expression class \w matches, among those used.
WordChars == {"a", "b", "A", "1", "s", "_", "t", "o", "l", "c", "r", "e", "d",
              "u", "k", "m", "n"}

Whitespace == {" "}

IsWordChar(c) == c \in WordChars

\* str.lower() on one character.
LowerChar(c) == IF c = "A" THEN "a" ELSE c

Lower(s) == [i \in 1..Len(s) |-> LowerChar(s[i])]

RECURSIVE LStrip(_)
LStrip(s) == IF s # <<>> /\ Head(s) \in Whitespace THEN LStrip(Tail(s)) ELSE s

RECURSIVE RStrip(_)
RStrip(s) ==
    IF s # <<>> /\ s[Len(s)] \in Whitespace
    THEN RStrip(SubSeq(s, 1, Len(s) - 1))
    ELSE s

\* str.strip()
Strip(s) == RStrip(LStrip(s))

EndsWith(s, suffix) ==
    /\ Len(suffix) <= Len(s)
    /\ SubSeq(s, Len(s) - Len(suffix) + 1, Len(s)) = suffix

\* A sanitizer that collapses each maximal run of illegal characters into one
\* underscore.
RECURSIVE SanitizeRuns(_)
SanitizeRuns(text) ==
    IF text = <<>> THEN <<>>
    ELSE IF IsWordChar(Head(text)) THEN <<Head(text)>> \o SanitizeRuns(Tail(text))
    ELSE IF Len(text) > 1 /\ ~IsWordChar(text[2]) THEN SanitizeRuns(Tail(text))
    ELSE <<"_">> \o SanitizeRuns(Tail(text))

\* Variant: only the first illegal character is replaced (sub with count=1).
RECURSIVE SanitizeFirstOnly(_)
SanitizeFirstOnly(text) ==
    IF text = <<>> THEN <<>>
    ELSE IF IsWordChar(Head(text)) THEN <<Head(text)>> \o SanitizeFirstOnly(Tail(text))
    ELSE <<"_">> \o Tail(text)

\* PrometheusMetric._sanitize: NON_ALPHANUMERIC.sub('_', text) with
\* NON_ALPHANUMERIC = re.compile(r'[^\w]'): every character that is not a word
\* character is replaced, one by one.
_sanitize(text) ==
    [i \in 1..Len(text) |-> IF IsWordChar(text[i]) THEN text[i] ELSE "_"]

(***************************************************************************)
(* State.                                                                  *)
(***************************************************************************)
VARIABLES
    meter_lock,     \* PrometheusMeterProvider._meter_lock: its holder, or "free"
    meters,         \* PrometheusMeterProvider._meters: scope -> Meter object
    meterObjs,      \* the PrometheusMeter objects, by object id: their
                    \* _instrument_ids and _instrument_id_instrument
    instruments,    \* the Instrument objects, by object id
    registry,       \* the timeseries names registered with the backend
    noop,           \* what get_meter's no-op Meter has handed out
    pc,             \* each thread's position
    local,          \* each thread's arguments and local variables
    result,         \* the outcome of each thread's last finished call
    calls,          \* calls started so far
    meterReturns,   \* history: <<scope, Meter object>> of every get_meter return
    instrReturns,   \* history: outcome of every create_<kind> call
    recordings,     \* history: <<Instrument, attributes, backend metric>> of
                    \* every recording passed on to the backend
    sanitizeCall,   \* one application of the sanitizer (SpecSanitize)
    shard_lock,     \* self._lock of the sharded backend metric: holder or "free"
    shard_metrics,  \* its self._metrics, in insertion order: label values and
                    \* child object of each shard
    children,       \* the child storage objects, by object id
    trav            \* each thread's traversal by _multi_samples_with_labels:
                    \* its snapshot, its position in it, the Samples yielded

\* The state of the sharded backend metric and of the traversals over it.
mergeVars == <<shard_lock, shard_metrics, children, trav>>

vars == <<meter_lock, meters, meterObjs, instruments, registry, noop, pc, local,
          result, calls, meterReturns, instrReturns, recordings, sanitizeCall,
          mergeVars>>

\* The id standing for the NoOpMeter objects get_meter returns.
NoOpMeterId == 0

Classes == {"PrometheusCounter", "PrometheusUpDownCounter", "PrometheusGauge",
            "PrometheusHistogram"}

NoLocal ==
    [scope |-> <<"None", "None", "None">>, found |-> FALSE, meter |-> 0,
     cls |-> "", name |-> <<>>, unit |-> <<>>, description |-> "",
     instrument_id |-> <<>>, instrument |-> 0]

NoResult == [op |-> "", arg |-> 0, status |-> "", val |-> 0]

NoSanitizeCall ==
    [text |-> <<>>, out |-> <<>>, done |-> FALSE, again |-> <<>>, redone |-> FALSE]

\* A PrometheusMeterProvider after __init__, no call started.
ProviderInit ==
    /\ meter_lock = "free"
    /\ meters = <<>>
    /\ meterObjs = <<>>
    /\ instruments = <<>>
    /\ registry = {}
    /\ noop = [meter |-> FALSE, instruments |-> {}]
    /\ pc = [t \in Threads |-> "idle"]
    /\ local = [t \in Threads |-> NoLocal]
    /\ result = [t \in Threads |-> NoResult]
    /\ calls = 0
    /\ meterReturns = {}
    /\ instrReturns = {}
    /\ recordings = {}

NoTraversal == [metrics |-> <<>>, k |-> 0, out |-> <<>>]

\* A sharded backend metric with no child yet, no traversal started.
MergeInit ==
    /\ shard_lock = "free"
    /\ shard_metrics = <<>>
    /\ children = <<>>
    /\ trav = [t \in Threads |-> NoTraversal]

Init ==
    /\ ProviderInit
    /\ MergeInit
    /\ sanitizeCall = NoSanitizeCall

CanCall(t) == pc[t] = "idle" /\ calls < MaxCalls

\* Variant: the assignment leaves a mapping that holds the new key only.
PutFresh(f, k, v) == [x \in {k} |-> v]

\* mapping[k] = v on a dict.
Put(f, k, v) == [x \in (DOMAIN f) \cup {k} |-> IF x = k THEN v ELSE f[x]]

(***************************************************************************)
(* PrometheusMeterProvider.get_meter                                       *)
(***************************************************************************)
\* Variant: only None counts as a missing name (`if name is None`).
NameIsNone(name) == name = "None"

\* `if not name`: None and the empty string are falsy.
NameMissing(name) == name \in {"None", ""}

\* Variant: the lookup-or-insert runs without the lock.
MeterLockIgnored == TRUE

\* The lock can be taken: no thread is inside `with self._meter_lock`.
MeterLockAvailable == meter_lock = "free"

\* PrometheusMeter.__init__: an empty instrument registry and its lock.
NewMeter(info) ==
    [scope |-> info, instrument_ids |-> {}, instrument_id_instrument |-> <<>>,
     lock |-> "free"]

\* Entry: a missing name returns a NoOpMeter at once; otherwise the scope key
\* is built and the thread goes for the lock.
GetMeterCall(t, name, version, schema_url) ==
    /\ CanCall(t)
    /\ calls' = calls + 1
    /\ IF NameMissing(name)
       THEN /\ noop' = [noop EXCEPT !.meter = TRUE]
            /\ result' = [result EXCEPT ![t] =
                   [op |-> "get_meter", arg |-> 0, status |-> "returned", val |-> NoOpMeterId]]
            /\ UNCHANGED <<pc, local, meterReturns>>
       ELSE /\ local' = [local EXCEPT ![t] =
                   [NoLocal EXCEPT !.scope = <<name, version, schema_url>>]]
            /\ pc' = [pc EXCEPT ![t] = "gm_lock"]
            /\ UNCHANGED <<noop, result, meterReturns>>
    /\ UNCHANGED <<meter_lock, meters, meterObjs, instruments, registry,
                   instrReturns, recordings, sanitizeCall, mergeVars>>

\* with self._meter_lock:
GetMeterLock(t) ==
    /\ pc[t] = "gm_lock"
    /\ MeterLockAvailable
    /\ meter_lock' = t
    /\ pc' = [pc EXCEPT ![t] = "gm_check"]
    /\ UNCHANGED <<meters, meterObjs, instruments, registry, noop, local, result,
                   calls, meterReturns, instrReturns, recordings, sanitizeCall, mergeVars>>

\* if not self._meters.get(info):
GetMeterCheck(t) ==
    /\ pc[t] = "gm_check"
    /\ local' = [local EXCEPT ![t].found = local[t].scope \in DOMAIN meters]
    /\ pc' = [pc EXCEPT ![t] = "gm_insert"]
    /\ UNCHANGED <<meter_lock, meters, meterObjs, instruments, registry, noop,
                   result, calls, meterReturns, instrReturns, recordings, sanitizeCall, mergeVars>>

\*     self._meters[info] = PrometheusMeter(info)
GetMeterInsert(t) ==
    /\ pc[t] = "gm_insert"
    /\ IF local[t].found
       THEN UNCHANGED <<meters, meterObjs>>
       ELSE /\ meterObjs' = Append(meterObjs, NewMeter(local[t].scope))
            /\ meters' = Put(meters, local[t].scope, Len(meterObjs) + 1)
    /\ pc' = [pc EXCEPT ![t] = "gm_return"]
    /\ UNCHANGED <<meter_lock, instruments, registry, noop, local, result, calls,
                   meterReturns, instrReturns, recordings, sanitizeCall, mergeVars>>

\* return self._meters[info], leaving the with block
GetMeterReturn(t) ==
    /\ pc[t] = "gm_return"
    /\ result' = [result EXCEPT ![t] =
           [op |-> "get_meter", arg |-> 0, status |-> "returned", val |-> meters[local[t].scope]]]
    /\ meterReturns' = meterReturns \cup {<<local[t].scope, meters[local[t].scope]>>}
    /\ meter_lock' = "free"
    /\ pc' = [pc EXCEPT ![t] = "idle"]
    /\ local' = [local EXCEPT ![t] = NoLocal]
    /\ UNCHANGED <<meters, meterObjs, instruments, registry, noop, calls,
                   instrReturns, recordings, sanitizeCall, mergeVars>>

(***************************************************************************)
(* The backend: prometheus_client metric objects and their registry.       *)
(***************************************************************************)
\* metric_cls of each adapter class.
MetricType(cls) ==
    CASE cls = "PrometheusCounter" -> "counter"
      [] cls = "PrometheusUpDownCounter" -> "gauge"
      [] cls = "PrometheusGauge" -> "gauge"
      [] cls = "PrometheusHistogram" -> "histogram"

\* The series name the backend derives from the name and unit it is given: a
\* counter loses a trailing _total, a non-empty unit is appended.
FullName(type, name, unit) ==
    LET total == <<"_", "t", "o", "t", "a", "l">>
        base == IF type = "counter" /\ EndsWith(name, total)
                THEN SubSeq(name, 1, Len(name) - Len(total))
                ELSE name
    IN  IF unit # <<>> /\ ~EndsWith(base, <<"_">> \o unit)
        THEN base \o <<"_">> \o unit
        ELSE base

\* The timeseries names a metric of the given type claims in the registry.
TimeseriesNames(type, full) ==
    LET suffixes ==
            CASE type = "counter" ->
                     {<<"_", "t", "o", "t", "a", "l">>,
                      <<"_", "c", "r", "e", "a", "t", "e", "d">>}
              [] type = "histogram" ->
                     {<<"_", "b", "u", "c", "k", "e", "t">>,
                      <<"_", "s", "u", "m">>,
                      <<"_", "c", "o", "u", "n", "t">>,
                      <<"_", "c", "r", "e", "a", "t", "e", "d">>}
              [] OTHER -> {}
    IN  {full} \cup {full \o x : x \in suffixes}

\* Variant: a layout that lacks the 5000 bound.
BucketsWithout5000 ==
    <<0, 5, 10, 25, 50, 75, 100, 250, 500, 750, 1000, 2500, 7500, 10000>>

\* PrometheusHistogram.metric_kw['buckets']; the backend appends +Inf.
Buckets == <<0, 5, 10, 25, 50, 75, 100, 250, 500, 750, 1000, 2500, 5000, 7500,
             10000>>

\* Index of the overflow (+Inf) bucket.
Overflow == Len(Buckets) + 1

\* The stored bucket an observation falls into: the first whose upper bound
\* is >= amount, the overflow bucket when there is none.
BucketIndex(amount) ==
    IF \E i \in 1..Len(Buckets) : amount <= Buckets[i]
    THEN CHOOSE i \in 1..Len(Buckets) :
             /\ amount <= Buckets[i]
             /\ \A j \in 1..(i - 1) : ~(amount <= Buckets[j])
    ELSE Overflow

\* The exposed, cumulative count of bucket i: the stored counts up to it.
RECURSIVE Cumulative(_, _)
Cumulative(stored, i) == IF i = 0 THEN 0 ELSE stored[i] + Cumulative(stored, i - 1)

\* The attributes PrometheusMetric.__init__ sets on the instance. The base
\* Instrument.__init__ it calls first is abstract and sets none.
InstanceAttributes == {"_metric"}

\* PrometheusMetric.__init__: the instrument object and its backend metric,
\* created under the sanitized name.
NewInstrument(cls, name, unit, description) ==
    [cls |-> cls, name |-> name, unit |-> unit, description |-> description,
     metric |-> FullName(MetricType(cls), _sanitize(name), unit),
     value |-> 0, buckets |-> [i \in 1..Overflow |-> 0], sum |-> 0,
     accepted |-> 0, observed |-> 0]

(***************************************************************************)
(* PrometheusMeter._create and create_<kind>                               *)
(***************************************************************************)
\* The id Meter._is_instrument_registered builds:
\* ",".join([name.strip().lower(), type_.__name__, unit, description]).
InstrumentId(name, cls, unit, description) ==
    Lower(Strip(name)) \o <<",", cls, ",">> \o unit \o <<",", description>>

\* Variant: the check only reads _instrument_ids.
IdsAfterCheckUnchanged(ids, id) == ids

\* _instrument_ids after the check for id: the id is in it, added if it was
\* missing.
IdsAfterCheck(ids, id) == ids \cup {id}

\* create_counter, create_up_down_counter, create_gauge, create_histogram each
\* call _create with their adapter class.
CreateCall(t, m, cls, name, unit, description) ==
    /\ CanCall(t)
    /\ \E e \in meterReturns : e[2] = m
    /\ m # NoOpMeterId
    /\ calls' = calls + 1
    /\ local' = [local EXCEPT ![t] =
           [NoLocal EXCEPT !.meter = m, !.cls = cls, !.name = name,
                           !.unit = unit, !.description = description]]
    /\ pc' = [pc EXCEPT ![t] = "cr_registered"]
    /\ UNCHANGED <<meter_lock, meters, meterObjs, instruments, registry, noop,
                   result, meterReturns, instrReturns, recordings, sanitizeCall, mergeVars>>

\* self._is_instrument_registered(name, cls, unit, description): under the
\* Meter's _instrument_ids_lock, report whether the id is in _instrument_ids
\* and add it when it is not.
IsInstrumentRegistered(t) ==
    /\ pc[t] = "cr_registered"
    /\ LET l == local[t]
           id == InstrumentId(l.name, l.cls, l.unit, l.description)
           registered == id \in meterObjs[l.meter].instrument_ids
       IN  /\ local' = [local EXCEPT ![t].instrument_id = id,
                                     ![t].found = registered]
           /\ meterObjs' = [meterObjs EXCEPT
                  ![l.meter].instrument_ids = IdsAfterCheck(@, id)]
           /\ pc' = [pc EXCEPT ![t] =
                  IF registered THEN "cr_warn" ELSE "cr_construct"]
    /\ UNCHANGED <<meter_lock, meters, instruments, registry, noop, result, calls,
                   meterReturns, instrReturns, recordings, sanitizeCall, mergeVars>>

Outcome(t, status, val) ==
    LET l == local[t]
    IN  /\ result' = [result EXCEPT ![t] =
               [op |-> "create", arg |-> 0, status |-> status, val |-> val]]
        /\ instrReturns' = instrReturns \cup
               {<<l.meter, l.name, l.cls, l.unit, l.description, status, val>>}
        /\ pc' = [pc EXCEPT ![t] = "idle"]
        /\ local' = [local EXCEPT ![t] = NoLocal]

\* The registered branch: _logger.warning(...)
CreateWarn(t) ==
    /\ pc[t] = "cr_warn"
    /\ pc' = [pc EXCEPT ![t] = "cr_existing_lock"]
    /\ UNCHANGED <<meter_lock, meters, meterObjs, instruments, registry, noop,
                   local, result, calls, meterReturns, instrReturns, recordings, sanitizeCall, mergeVars>>

\* with self._instrument_id_instrument_lock: (either branch)
InstrumentLockAcquire(t, next) ==
    /\ meterObjs[local[t].meter].lock = "free"
    /\ meterObjs' = [meterObjs EXCEPT ![local[t].meter].lock = t]
    /\ pc' = [pc EXCEPT ![t] = next]
    /\ UNCHANGED <<meter_lock, meters, instruments, registry, noop, local, result,
                   calls, meterReturns, instrReturns, recordings, sanitizeCall, mergeVars>>

CreateExistingLock(t) ==
    /\ pc[t] = "cr_existing_lock"
    /\ InstrumentLockAcquire(t, "cr_existing")

\*     return self._instrument_id_instrument[instrument_id]
\* The lookup of a missing key raises KeyError; leaving the with block
\* releases the lock either way.
CreateExisting(t) ==
    /\ pc[t] = "cr_existing"
    /\ LET l == local[t]
           reg == meterObjs[l.meter].instrument_id_instrument
       IN  /\ IF l.instrument_id \in DOMAIN reg
              THEN Outcome(t, "returned", reg[l.instrument_id])
              ELSE Outcome(t, "KeyError", 0)
           /\ meterObjs' = [meterObjs EXCEPT ![l.meter].lock = "free"]
    /\ UNCHANGED <<meter_lock, meters, instruments, registry, noop,
                   calls, meterReturns, recordings, sanitizeCall, mergeVars>>

\* instrument = cls(name, unit, description): the backend metric registers its
\* timeseries names and raises ValueError when one of them is taken.
CreateConstruct(t) ==
    /\ pc[t] = "cr_construct"
    /\ LET l == local[t]
           new == NewInstrument(l.cls, l.name, l.unit, l.description)
           names == TimeseriesNames(MetricType(l.cls), new.metric)
       IN  IF names \cap registry # {}
           THEN /\ Outcome(t, "ValueError", 0)
                /\ UNCHANGED <<instruments, registry>>
           ELSE /\ instruments' = Append(instruments, new)
                /\ registry' = registry \cup names
                /\ local' = [local EXCEPT ![t].instrument = Len(instruments) + 1]
                /\ pc' = [pc EXCEPT ![t] = "cr_insert_lock"]
                /\ UNCHANGED <<result, instrReturns>>
    /\ UNCHANGED <<meter_lock, meters, meterObjs, noop, calls, meterReturns,
                   recordings, sanitizeCall, mergeVars>>

CreateInsertLock(t) ==
    /\ pc[t] = "cr_insert_lock"
    /\ InstrumentLockAcquire(t, "cr_insert")

\*     self._instrument_id_instrument[instrument_id] = instrument
\*     return instrument
CreateInsert(t) ==
    /\ pc[t] = "cr_insert"
    /\ LET l == local[t]
       IN  /\ meterObjs' = [meterObjs EXCEPT
                  ![l.meter].instrument_id_instrument =
                      Put(@, l.instrument_id, l.instrument),
                  ![l.meter].lock = "free"]
           /\ Outcome(t, "returned", l.instrument)
    /\ UNCHANGED <<meter_lock, meters, instruments, registry, noop, calls,
                   meterReturns, recordings, sanitizeCall, mergeVars>>

ObservableKinds == {"create_observable_counter",
                    "create_observable_up_down_counter",
                    "create_observable_gauge"}

\* Variant: an observable creation is served like create_counter.
CreateObservableAsCounter(t, m, which) ==
    CreateCall(t, m, "PrometheusCounter", <<"a", ".", "b">>, <<>>, "")

\* create_observable_counter, create_observable_up_down_counter and
\* create_observable_gauge: raise NotImplementedError.
CreateObservable(t, m, which) ==
    /\ CanCall(t)
    /\ \E e \in meterReturns : e[2] = m
    /\ m # NoOpMeterId
    /\ calls' = calls + 1
    /\ result' = [result EXCEPT ![t] =
           [op |-> which, arg |-> 0, status |-> "NotImplementedError", val |-> 0]]
    /\ UNCHANGED <<meter_lock, meters, meterObjs, instruments, registry, noop, pc,
                   local, meterReturns, instrReturns, recordings, sanitizeCall, mergeVars>>

(***************************************************************************)
(* The instrument adapters' recording operations.  `attributes` is ignored *)
(* by PrometheusMetric.metric, which always answers self._metric.          *)
(***************************************************************************)
\* The instruments callers hold: those some create_<kind> call returned.
Held(i) == \E e \in instrReturns : e[6] = "returned" /\ e[7] = i

\* Variant: the recording goes to the child series of the label set given.
MetricChildByLabels(i, attributes) ==
    [family |-> instruments[i].metric, labels |-> attributes]

\* PrometheusMetric.metric(attributes): return self._metric, the backend
\* metric itself and none of its labelled children.
metric(i, attributes) == [family |-> instruments[i].metric, labels |-> "None"]

RecordCall(t, i, cls, amount) ==
    /\ CanCall(t)
    /\ Held(i)
    /\ instruments[i].cls = cls
    /\ calls' = calls + 1
    /\ UNCHANGED <<meter_lock, meters, meterObjs, registry, noop, pc, local,
                   meterReturns, instrReturns, sanitizeCall, mergeVars>>

\* The rejection of a negative amount: the warning's argument self.name is
\* evaluated first, and the lookup of an attribute the instance does not have
\* raises AttributeError; otherwise the warning is logged and the call returns.
Rejected(t, op, i, amount) ==
    /\ result' = [result EXCEPT ![t] =
           [op |-> op, arg |-> amount,
            status |-> IF "name" \in InstanceAttributes
                       THEN "returned" ELSE "AttributeError",
            val |-> i]]
    /\ UNCHANGED <<instruments, recordings>>

\* The call returns after self.metric(attributes).<inc|set|observe>(amount).
Recorded(t, op, i, amount, attributes) ==
    /\ result' = [result EXCEPT ![t] =
           [op |-> op, arg |-> amount, status |-> "returned", val |-> i]]
    /\ recordings' = recordings \cup {<<i, attributes, metric(i, attributes)>>}

\* PrometheusCounter.add
CounterAdd(t, i, amount, attributes) ==
    /\ RecordCall(t, i, "PrometheusCounter", amount)
    /\ IF amount < 0
       THEN Rejected(t, "add", i, amount)
       ELSE /\ instruments' = [instruments EXCEPT ![i].value = @ + amount,
                                                  ![i].accepted = @ + amount]
            /\ Recorded(t, "add", i, amount, attributes)

\* PrometheusUpDownCounter.add
UpDownCounterAdd(t, i, amount, attributes) ==
    /\ RecordCall(t, i, "PrometheusUpDownCounter", amount)
    /\ instruments' = [instruments EXCEPT ![i].value = @ + amount]
    /\ Recorded(t, "add", i, amount, attributes)

\* PrometheusGauge.set
GaugeSet(t, i, amount, attributes) ==
    /\ RecordCall(t, i, "PrometheusGauge", amount)
    /\ instruments' = [instruments EXCEPT ![i].value = amount]
    /\ Recorded(t, "set", i, amount, attributes)

\* PrometheusHistogram.record; observe adds the amount to the sum and one to
\* the stored bucket the amount falls into.
HistogramRecord(t, i, amount, attributes) ==
    /\ RecordCall(t, i, "PrometheusHistogram", amount)
    /\ IF amount < 0
       THEN Rejected(t, "record", i, amount)
       ELSE /\ instruments' = [instruments EXCEPT
                   ![i].sum = @ + amount,
                   ![i].accepted = @ + amount,
                   ![i].observed = @ + 1,
                   ![i].buckets[BucketIndex(amount)] = @ + 1]
            /\ Recorded(t, "record", i, amount, attributes)

(***************************************************************************)
(* The NoOpMeter get_meter returns for a missing name, and its instruments.*)
(***************************************************************************)
\* NoOpMeter.create_<kind>: a no-op instrument of that kind.
NoOpCreate(t, cls) ==
    /\ CanCall(t)
    /\ noop.meter
    /\ calls' = calls + 1
    /\ noop' = [noop EXCEPT !.instruments = @ \cup {cls}]
    /\ result' = [result EXCEPT ![t] =
           [op |-> "noop_create", arg |-> 0, status |-> "returned", val |-> 0]]
    /\ UNCHANGED <<meter_lock, meters, meterObjs, instruments, registry, pc, local,
                   meterReturns, instrReturns, recordings, sanitizeCall, mergeVars>>

\* add, set or record on a no-op instrument: the value is discarded.
NoOpRecord(t, cls, amount) ==
    /\ CanCall(t)
    /\ cls \in noop.instruments
    /\ calls' = calls + 1
    /\ result' = [result EXCEPT ![t] =
           [op |-> "noop_record", arg |-> amount, status |-> "returned", val |-> 0]]
    /\ UNCHANGED <<meter_lock, meters, meterObjs, instruments, registry, noop, pc,
                   local, meterReturns, instrReturns, recordings, sanitizeCall, mergeVars>>

(***************************************************************************)
(* _multi_samples_with_labels: the samples of a backend metric whose       *)
(* series live in one child object per label combination.                  *)
(***************************************************************************)
\* self._labelnames of the sharded metric.
_labelnames == <<"a">>

\* metric._samples() of a child: (suffix, labels, value, timestamp, exemplar)
\* tuples, one for a gauge, three for a histogram (whose only bucket is +Inf).
ChildSamples(child) ==
    LET sample(suffix, labels) ==
            [suffix |-> suffix, labels |-> labels, value |-> child.value,
             timestamp |-> child.timestamp, exemplar |-> "None"]
    IN  IF child.kind = "gauge"
        THEN <<sample("", <<>>)>>
        ELSE <<sample("_bucket", <<<<"le", "+Inf">>>>),
               sample("_count", <<>>),
               sample("_sum", <<>>)>>

\* zip(names, values): pairs up to the shorter length.
Zip(names, values) ==
    [i \in 1..(IF Len(names) < Len(values) THEN Len(names) ELSE Len(values)) |->
        <<names[i], values[i]>>]

\* dict(pairs), as its items in order: a key seen again keeps its place and
\* takes the later value.
RECURSIVE Dict(_)
Dict(pairs) ==
    IF pairs = <<>> THEN <<>>
    ELSE LET init == Dict(SubSeq(pairs, 1, Len(pairs) - 1))
             last == pairs[Len(pairs)]
         IN  IF \E i \in 1..Len(init) : init[i][1] = last[1]
             THEN [i \in 1..Len(init) |->
                      IF init[i][1] = last[1] THEN last ELSE init[i]]
             ELSE Append(init, last)

\* Variant: the Sample carries only the child's own labels.
SampleLabelsOfChildOnly(labels, sample_labels) == Dict(sample_labels)

\* series_labels = list(zip(self._labelnames, labels));
\* dict(series_labels + list(sample_labels.items()))
SampleLabels(labels, sample_labels) ==
    Dict(Zip(_labelnames, labels) \o sample_labels)

\* The Samples yielded for one (labels, metric) item of the snapshot.
ShardSamples(labels, child) ==
    LET samples == ChildSamples(child)
    IN  [j \in 1..Len(samples) |->
            [name |-> samples[j].suffix,
             labels |-> SampleLabels(labels, samples[j].labels),
             value |-> samples[j].value,
             timestamp |-> samples[j].timestamp,
             exemplar |-> samples[j].exemplar]]

\* The backend's labels(...) call of some thread: under self._lock, a child
\* for label values not seen before is added to self._metrics.
AddShard(t, labelvalue, kind) ==
    /\ pc[t] = "idle"
    /\ shard_lock = "free"
    /\ \A k \in 1..Len(shard_metrics) : shard_metrics[k].labels # <<labelvalue>>
    /\ children' = Append(children,
           [kind |-> kind, value |-> 3, timestamp |-> "None"])
    /\ shard_metrics' = Append(shard_metrics,
           [labels |-> <<labelvalue>>, child |-> Len(children) + 1])
    /\ UNCHANGED <<meter_lock, meters, meterObjs, instruments, registry, noop, pc,
                   local, result, calls, meterReturns, instrReturns, recordings, sanitizeCall,
                   shard_lock, trav>>

\* A recording on a child by some thread changes the value it holds.
ChildUpdate(t, c, value) ==
    /\ pc[t] = "idle"
    /\ children[c].value # value
    /\ children' = [children EXCEPT ![c].value = value]
    /\ UNCHANGED <<meter_lock, meters, meterObjs, instruments, registry, noop, pc,
                   local, result, calls, meterReturns, instrReturns, recordings, sanitizeCall,
                   shard_lock, shard_metrics, trav>>

\* A traversal starts: the generator runs up to `with self._lock`.
MergeCall(t) ==
    /\ CanCall(t)
    /\ calls' = calls + 1
    /\ trav' = [trav EXCEPT ![t] = NoTraversal]
    /\ pc' = [pc EXCEPT ![t] = "ms_lock"]
    /\ UNCHANGED <<meter_lock, meters, meterObjs, instruments, registry, noop,
                   local, result, meterReturns, instrReturns, recordings, sanitizeCall,
                   shard_lock, shard_metrics, children>>

\* with self._lock:
MergeLock(t) ==
    /\ pc[t] = "ms_lock"
    /\ shard_lock = "free"
    /\ shard_lock' = t
    /\ pc' = [pc EXCEPT ![t] = "ms_copy"]
    /\ UNCHANGED <<meter_lock, meters, meterObjs, instruments, registry, noop,
                   local, result, calls, meterReturns, instrReturns, recordings, sanitizeCall,
                   shard_metrics, children, trav>>

\* Variant: the lock stays with the thread after the copy.
ShardLockKept(t) == t

\* self._lock once the with block is left: released.
ShardLockAfterCopy(t) == "free"

\*     metrics = self._metrics.copy()
\* and the with block is left.
MergeCopy(t) ==
    /\ pc[t] = "ms_copy"
    /\ trav' = [trav EXCEPT ![t].metrics = shard_metrics, ![t].k = 1]
    /\ shard_lock' = ShardLockAfterCopy(t)
    /\ pc' = [pc EXCEPT ![t] = "ms_iter"]
    /\ UNCHANGED <<meter_lock, meters, meterObjs, instruments, registry, noop,
                   local, result, calls, meterReturns, instrReturns, recordings, sanitizeCall,
                   shard_metrics, children>>

\* The mapping the loop runs over: the local copy.
\* Variant: the loop runs over self._metrics itself.
TraversedLive(t) == shard_metrics

\* for labels, metric in metrics.items():
Traversed(t) == trav[t].metrics

\* One round of the outer loop: metric._samples() is read and a Sample is
\* yielded for each of its tuples.
MergeShard(t) ==
    /\ pc[t] = "ms_iter"
    /\ trav[t].k <= Len(Traversed(t))
    /\ LET item == Traversed(t)[trav[t].k]
       IN  trav' = [trav EXCEPT
               ![t].out = @ \o ShardSamples(item.labels, children[item.child]),
               ![t].k = @ + 1]
    /\ UNCHANGED <<meter_lock, meters, meterObjs, instruments, registry, noop, pc,
                   local, result, calls, meterReturns, instrReturns, recordings, sanitizeCall,
                   shard_lock, shard_metrics, children>>

\* The loop is over: the generator is exhausted.
MergeDone(t) ==
    /\ pc[t] = "ms_iter"
    /\ trav[t].k > Len(Traversed(t))
    /\ result' = [result EXCEPT ![t] =
           [op |-> "samples", arg |-> 0, status |-> "returned",
            val |-> Len(trav[t].out)]]
    /\ pc' = [pc EXCEPT ![t] = "idle"]
    /\ UNCHANGED <<meter_lock, meters, meterObjs, instruments, registry, noop,
                   local, calls, meterReturns, instrReturns, recordings, sanitizeCall,
                   mergeVars>>

(***************************************************************************)
(* Specifications.                                                         *)
(***************************************************************************)
GetMeter(t) ==
    \/ \E name \in MeterNames, version \in Versions, schema_url \in SchemaUrls :
           GetMeterCall(t, name, version, schema_url)
    \/ GetMeterLock(t)
    \/ GetMeterCheck(t)
    \/ GetMeterInsert(t)
    \/ GetMeterReturn(t)

Create(t) ==
    \/ \E m \in 1..Len(meterObjs), cls \in Classes, name \in InstrumentNames,
          unit \in Units, description \in Descriptions :
           CreateCall(t, m, cls, name, unit, description)
    \/ IsInstrumentRegistered(t)
    \/ CreateWarn(t)
    \/ CreateExistingLock(t)
    \/ CreateExisting(t)
    \/ CreateConstruct(t)
    \/ CreateInsertLock(t)
    \/ CreateInsert(t)
    \/ \E m \in 1..Len(meterObjs), which \in ObservableKinds :
           CreateObservable(t, m, which)

\* Recordings that leave the attributes argument at its default, None.
Record(t) ==
    \E i \in 1..Len(instruments), amount \in Amounts :
        \/ CounterAdd(t, i, amount, "None")
        \/ UpDownCounterAdd(t, i, amount, "None")
        \/ GaugeSet(t, i, amount, "None")
        \/ HistogramRecord(t, i, amount, "None")

NoOp(t) ==
    \/ \E cls \in Classes : NoOpCreate(t, cls)
    \/ \E cls \in Classes, amount \in Amounts : NoOpRecord(t, cls, amount)

Next == \E t \in Threads : GetMeter(t) \/ Create(t) \/ Record(t) \/ NoOp(t)

Spec == Init /\ [][Next]_vars

(***************************************************************************)
(* The sanitizer alone: one application to each string over Alphabet of    *)
(* length at most MaxLen.                                                  *)
(***************************************************************************)
RECURSIVE StringsOfLength(_)
StringsOfLength(n) ==
    IF n = 0 THEN {<<>>}
    ELSE {<<c>> \o s : c \in Alphabet, s \in StringsOfLength(n - 1)}

Strings == UNION {StringsOfLength(n) : n \in 0..MaxLen}

SanitizeInit ==
    /\ ProviderInit
    /\ MergeInit
    /\ sanitizeCall \in {[NoSanitizeCall EXCEPT !.text = s] : s \in Strings}

Sanitize ==
    /\ ~sanitizeCall.done
    /\ sanitizeCall' = [sanitizeCall EXCEPT !.out = _sanitize(sanitizeCall.text),
                                            !.done = TRUE]
    /\ UNCHANGED <<meter_lock, meters, meterObjs, instruments, registry, noop, pc,
                   local, result, calls, meterReturns, instrReturns, recordings, mergeVars>>

\* The sanitizer applied to its own result.
Resanitize ==
    /\ sanitizeCall.done
    /\ ~sanitizeCall.redone
    /\ sanitizeCall' = [sanitizeCall EXCEPT !.again = _sanitize(sanitizeCall.out),
                                            !.redone = TRUE]
    /\ UNCHANGED <<meter_lock, meters, meterObjs, instruments, registry, noop, pc,
                   local, result, calls, meterReturns, instrReturns, recordings, mergeVars>>

SpecSanitize == SanitizeInit /\ [][Sanitize \/ Resanitize]_vars

(***************************************************************************)
(* The sample merger alone: threads add shards to one sharded metric,      *)
(* record on its children and traverse it.                                 *)
(***************************************************************************)
Backend(t) ==
    \/ \E labelvalue \in LabelValues, kind \in ChildKinds :
           AddShard(t, labelvalue, kind)
    \/ \E c \in 1..Len(children), value \in ChildValues : ChildUpdate(t, c, value)

Merge(t) ==
    \/ MergeCall(t)
    \/ MergeLock(t)
    \/ MergeCopy(t)
    \/ MergeShard(t)
    \/ MergeDone(t)

NextMerge == \E t \in Threads : Backend(t) \/ Merge(t)

SpecMerge == Init /\ [][NextMerge]_vars

(***************************************************************************)
(* The three locked resources together: get_meter, create_counter and      *)
(* Counter.add for one name each, next to traversals of a sharded metric   *)
(* with one gauge child.                                                   *)
(***************************************************************************)
NextLocks ==
    \E t \in Threads :
        \/ \E name \in {"", "m"} : GetMeterCall(t, name, "None", "None")
        \/ GetMeterLock(t)
        \/ GetMeterCheck(t)
        \/ GetMeterInsert(t)
        \/ GetMeterReturn(t)
        \/ \E m \in 1..Len(meterObjs) :
               CreateCall(t, m, "PrometheusCounter", <<"a", ".", "b">>, <<>>, "")
        \/ IsInstrumentRegistered(t)
        \/ CreateWarn(t)
        \/ CreateExistingLock(t)
        \/ CreateExisting(t)
        \/ CreateConstruct(t)
        \/ CreateInsertLock(t)
        \/ CreateInsert(t)
        \/ \E i \in 1..Len(instruments), amount \in {-5, 7} : CounterAdd(t, i, amount, "None")
        \/ AddShard(t, "1", "gauge")
        \/ Merge(t)

SpecLocks == Init /\ [][NextLocks]_vars

(***************************************************************************)
(* Recording alone: a Meter for the scope "m" holds one Instrument, which   *)
(* a create_<kind>("a.b") call has returned; calls are counted from there. *)
(* The threads record on it with every value of attributes.                *)
(***************************************************************************)
RecordInit ==
    \E cls \in Classes :
        LET scope == <<"m", "None", "None">>
            name == <<"a", ".", "b">>
            id == InstrumentId(name, cls, <<>>, "")
            new == NewInstrument(cls, name, <<>>, "")
        IN  /\ meter_lock = "free"
            /\ meters = Put(<<>>, scope, 1)
            /\ meterObjs = <<[NewMeter(scope) EXCEPT
                                 !.instrument_ids = {id},
                                 !.instrument_id_instrument = Put(<<>>, id, 1)]>>
            /\ instruments = <<new>>
            /\ registry = TimeseriesNames(MetricType(cls), new.metric)
            /\ noop = [meter |-> FALSE, instruments |-> {}]
            /\ pc = [t \in Threads |-> "idle"]
            /\ local = [t \in Threads |-> NoLocal]
            /\ result = [t \in Threads |-> NoResult]
            /\ calls = 0
            /\ meterReturns = {<<scope, 1>>}
            /\ instrReturns = {<<1, name, cls, <<>>, "", "returned", 1>>}
            /\ recordings = {}
            /\ MergeInit
            /\ sanitizeCall = NoSanitizeCall

NextRecord ==
    \E t \in Threads, i \in 1..Len(instruments), amount \in {-5, 7},
       attributes \in Attributes :
        \/ CounterAdd(t, i, amount, attributes)
        \/ UpDownCounterAdd(t, i, amount, attributes)
        \/ GaugeSet(t, i, amount, attributes)
        \/ HistogramRecord(t, i, amount, attributes)

SpecRecord == RecordInit /\ [][NextRecord]_vars

(***************************************************************************)
(* Properties.                                                             *)
(***************************************************************************)
\* Fields of an instrReturns entry.
SameIdentity(e1, e2) ==
    /\ e1[1] = e2[1] /\ e1[2] = e2[2] /\ e1[3] = e2[3]
    /\ e1[4] = e2[4] /\ e1[5] = e2[5]

\* Only one thread has ever started a call.
SingleThreaded ==
    \E t \in Threads :
        \A u \in Threads \ {t} : pc[u] = "idle" /\ result[u] = NoResult

\* C1: for one provider, all get_meter calls with a non-empty name and equal
\* (name, version, schema_url) return the identical Meter object, whatever
\* the interleaving of the calling threads; the Meter is a real one, built
\* for that scope.
C1_SameMeterPerScope ==
    /\ \A e1, e2 \in meterReturns : e1[1] = e2[1] => e1[2] = e2[2]
    /\ \A e \in meterReturns :
           /\ e[2] \in 1..Len(meterObjs)
           /\ meterObjs[e[2]].scope = e[1]

\* Two threads have both finished a get_meter call for a real scope and got
\* the same Meter.
C1_Witness ==
    \E t1, t2 \in Threads :
        /\ t1 # t2
        /\ result[t1].op = "get_meter" /\ result[t2].op = "get_meter"
        /\ result[t1].val # NoOpMeterId
        /\ result[t1].val = result[t2].val

\* C2 (as claimed): once a create_<kind> call on a Meter has returned an
\* Instrument for an identity, every create_<kind> call with that identity,
\* earlier or later, in any thread, returns that same Instrument.
C2_SameInstrumentPerIdentity ==
    \A e1, e2 \in instrReturns :
        (SameIdentity(e1, e2) /\ e1[6] = "returned") => e2 = e1

\* C3 (as claimed): while a single thread makes all the calls, every
\* create_<kind> call returns an Instrument, the Meter's registry holds that
\* Instrument under the call's id, and all calls with one identity return
\* the same Instrument.
C3_FirstCreatesLaterReturn ==
    SingleThreaded =>
        \A e \in instrReturns :
            /\ e[6] = "returned"
            /\ LET reg == meterObjs[e[1]].instrument_id_instrument
                   id == InstrumentId(e[2], e[3], e[4], e[5])
               IN  id \in DOMAIN reg /\ reg[id] = e[7]
            /\ \A e2 \in instrReturns : SameIdentity(e, e2) => e2[7] = e[7]

\* C4 (as claimed): create_<kind> calls on one Meter with the same name, unit
\* and description and different kinds all succeed, with distinct
\* Instruments that own distinct backend objects.
C4_KindsAreDistinct ==
    \A e1, e2 \in instrReturns :
        (/\ e1[1] = e2[1] /\ e1[2] = e2[2] /\ e1[4] = e2[4] /\ e1[5] = e2[5]
         /\ e1[3] # e2[3])
        => /\ e1[6] = "returned" /\ e2[6] = "returned"
           /\ e1[7] # e2[7]

\* A step of a call that goes through the no-op Meter: get_meter with a
\* missing name, a creation on the NoOpMeter, a recording on one of its
\* instruments.
NoOpStep ==
    \E t \in Threads :
        \/ \E name \in {n \in MeterNames : NameMissing(n)}, version \in Versions,
              schema_url \in SchemaUrls :
               GetMeterCall(t, name, version, schema_url)
        \/ NoOp(t)

\* C5: get_meter with an empty or absent name returns a no-op Meter without
\* raising and leaves the scope-to-Meter registry unchanged (no scope with a
\* missing name is ever registered or answered with a real Meter), and no
\* creation or recording through the no-op Meter changes a Meter, an
\* Instrument or a backend series.
C5_NoOpMeter ==
    /\ [](/\ \A sc \in DOMAIN meters : sc[1] \notin {"None", ""}
          /\ \A e \in meterReturns : e[1][1] \notin {"None", ""}
          /\ \A t \in Threads :
                 result[t].op \in {"noop_create", "noop_record"}
                     => result[t].status = "returned")
    /\ [][NoOpStep => UNCHANGED <<meters, meterObjs, instruments, registry>>]_vars

\* get_meter has returned a no-op Meter and a recording through one of its
\* instruments has returned.
C5_Witness ==
    /\ \E t \in Threads : result[t].op = "noop_record"
    /\ noop.meter
    /\ noop.instruments # {}

\* C6: every create_observable_counter, create_observable_up_down_counter
\* and create_observable_gauge call fails with NotImplementedError, returns
\* no instrument and leaves the Meter's instrument registry unchanged.
C6_ObservableUnsupported ==
    /\ [](\A t \in Threads :
              result[t].op \in ObservableKinds
                  => result[t].status = "NotImplementedError" /\ result[t].val = 0)
    /\ [][\A t \in Threads, m \in 1..Len(meterObjs), which \in ObservableKinds :
              CreateObservable(t, m, which)
                  => /\ result'[t] = [op |-> which, arg |-> 0,
                                      status |-> "NotImplementedError", val |-> 0]
                     /\ pc'[t] = "idle"
                     /\ UNCHANGED <<meters, meterObjs, instruments, registry,
                                    instrReturns>>]_vars

\* An observable creation has failed on a Meter that holds an instrument.
C6_Witness ==
    /\ \E t \in Threads : result[t].op \in ObservableKinds
    /\ \E m \in 1..Len(meterObjs) : meterObjs[m].instrument_ids # {}

\* C7 (as claimed): Counter.add with a negative amount returns normally, and
\* a counter's value is the sum of the non-negative amounts added.
C7_NegativeAddIgnored ==
    /\ \A t \in Threads :
           (result[t].op = "add" /\ result[t].arg < 0
            /\ instruments[result[t].val].cls = "PrometheusCounter")
               => result[t].status = "returned"
    /\ \A i \in 1..Len(instruments) :
           instruments[i].cls = "PrometheusCounter"
               => instruments[i].value = instruments[i].accepted

\* C8 (as claimed): Histogram.record with a negative amount returns normally
\* and leaves the buckets, the count and the sum unchanged: count and sum
\* are those of the non-negative amounts recorded.
C8_NegativeRecordIgnored ==
    /\ \A t \in Threads :
           (result[t].op = "record" /\ result[t].arg < 0)
               => result[t].status = "returned"
    /\ \A i \in 1..Len(instruments) :
           instruments[i].cls = "PrometheusHistogram"
               => /\ Cumulative(instruments[i].buckets, Overflow)
                      = instruments[i].observed
                  /\ instruments[i].sum = instruments[i].accepted

\* The bucket layout the claim names; the overflow bucket follows it.
C9_Layout == <<0, 5, 10, 25, 50, 75, 100, 250, 500, 750, 1000, 2500, 5000, 7500,
               10000>>

\* The upper bound of exposed bucket k is >= amount (the overflow bucket's
\* bound is +Inf).
BoundCovers(k, amount) == k = Len(C9_Layout) + 1 \/ amount <= C9_Layout[k]

\* C9: Histogram.record with amount >= 0 raises by one the exposed
\* (cumulative) count of exactly the buckets whose upper bound is >= amount,
\* the overflow bucket included, and of no other; for 5000 these are the
\* buckets 5000, 7500, 10000 and overflow.
C9_CumulativeBuckets ==
    [][\A t \in Threads, i \in 1..Len(instruments),
         amount \in {a \in Amounts : a >= 0} :
           HistogramRecord(t, i, amount, "None") =>
               /\ Len(instruments'[i].buckets) = Len(C9_Layout) + 1
               /\ \A k \in 1..(Len(C9_Layout) + 1) :
                      Cumulative(instruments'[i].buckets, k) =
                          Cumulative(instruments[i].buckets, k)
                              + (IF BoundCovers(k, amount) THEN 1 ELSE 0)
               /\ amount = 5000 =>
                      {k \in 1..(Len(C9_Layout) + 1) :
                           Cumulative(instruments'[i].buckets, k) #
                               Cumulative(instruments[i].buckets, k)}
                          = {13, 14, 15, 16}
               /\ \A j \in 1..Len(instruments) \ {i} :
                      instruments'[j] = instruments[j]]_vars

\* record(5000) has returned.
C9_Witness ==
    \E t \in Threads :
        /\ result[t].op = "record" /\ result[t].arg = 5000
        /\ result[t].status = "returned"
        /\ Cumulative(instruments[result[t].val].buckets, 13) = 1
        /\ Cumulative(instruments[result[t].val].buckets, 12) = 0

\* C10 (as claimed): the sanitizer replaces every maximal run of characters
\* that are not alphanumeric or underscore by a single underscore.
C10_RunsCollapse ==
    sanitizeCall.done => sanitizeCall.out = SanitizeRuns(sanitizeCall.text)

\* C10 (amended): the sanitizer replaces each character that is not
\* alphanumeric or underscore by one underscore, so a run of n such
\* characters gives n underscores, and leaves all other characters and the
\* length unchanged.
C10_EachCharReplaced ==
    sanitizeCall.done =>
        /\ Len(sanitizeCall.out) = Len(sanitizeCall.text)
        /\ \A i \in 1..Len(sanitizeCall.text) :
               sanitizeCall.out[i] =
                   (IF sanitizeCall.text[i] \in {"a", "1", "_"}
                    THEN sanitizeCall.text[i] ELSE "_")

\* A string with a run of two illegal characters has been sanitized.
C10_Witness ==
    /\ sanitizeCall.done
    /\ sanitizeCall.text = <<"a", ".", "#">>
    /\ sanitizeCall.out = <<"a", "_", "_">>

\* C11: the sanitizer is idempotent: sanitizing a sanitized string gives the
\* same string back.
C11_Idempotent ==
    sanitizeCall.redone => sanitizeCall.again = sanitizeCall.out

\* A string with two illegal characters has been sanitized twice.
C11_Witness ==
    /\ sanitizeCall.redone
    /\ sanitizeCall.text = <<".", "a", "#">>
    /\ sanitizeCall.again = <<"_", "a", "_">>

\* The suffix and label set of the Samples a traversal owes for the first n
\* items of its snapshot: per item, per tuple of the child in the child's
\* order, the pair (label name, label value) of the shard followed by the
\* child's extra labels.
RECURSIVE C12_Owed(_, _)
C12_Owed(metrics, n) ==
    IF n = 0 THEN <<>>
    ELSE LET tuples == ChildSamples(children[metrics[n].child])
         IN  C12_Owed(metrics, n - 1) \o
                 [j \in 1..Len(tuples) |->
                     [name |-> tuples[j].suffix,
                      labels |-> <<<<"a", metrics[n].labels[1]>>>> \o tuples[j].labels]]

\* C12: a traversal yields exactly one Sample per (shard, child sample) pair
\* of its snapshot, in the snapshot's order and within a shard in the
\* child's order; each Sample has the child's suffix, value, timestamp and
\* exemplar, and as labels the shard's label names paired with its label
\* values, followed by the child's extra labels.
C12_OneSamplePerChildSample ==
    /\ [](\A t \in Threads :
              trav[t].k >= 1 =>
                  [j \in 1..Len(trav[t].out) |->
                      [name |-> trav[t].out[j].name, labels |-> trav[t].out[j].labels]]
                  = C12_Owed(trav[t].metrics, trav[t].k - 1))
    /\ [][\A t \in Threads :
              MergeShard(t) =>
                  LET item == trav[t].metrics[trav[t].k]
                      tuples == ChildSamples(children[item.child])
                      n == Len(trav[t].out)
                  IN  /\ Len(trav'[t].out) = n + Len(tuples)
                      /\ SubSeq(trav'[t].out, 1, n) = trav[t].out
                      /\ \A j \in 1..Len(tuples) :
                             /\ trav'[t].out[n + j].name = tuples[j].suffix
                             /\ trav'[t].out[n + j].value = tuples[j].value
                             /\ trav'[t].out[n + j].timestamp = tuples[j].timestamp
                             /\ trav'[t].out[n + j].exemplar = tuples[j].exemplar]_vars

\* A traversal over the shards a=2 (a histogram) and a=1 (a gauge), added in
\* that order, is over: three Samples of the first, then one of the second.
C12_Witness ==
    \E t \in Threads :
        /\ pc[t] = "idle" /\ result[t].op = "samples"
        /\ Len(trav[t].metrics) = 2
        /\ Len(trav[t].out) = 4
        /\ trav[t].out[1].labels = <<<<"a", "2">>, <<"le", "+Inf">>>>
        /\ trav[t].out[3].name = "_sum"
        /\ trav[t].out[4].labels = <<<<"a", "1">>>>
        /\ trav[t].out[4].value = 4

\* C13: once a Meter's registry maps an identity to an Instrument, every
\* later state maps that identity to the same Instrument: no step of any
\* thread removes an entry or replaces its Instrument.
C13_EntriesStay ==
    [][\A m \in 1..Len(meterObjs) :
          \A id \in DOMAIN meterObjs[m].instrument_id_instrument :
              /\ m <= Len(meterObjs')
              /\ id \in DOMAIN meterObjs'[m].instrument_id_instrument
              /\ meterObjs'[m].instrument_id_instrument[id] =
                     meterObjs[m].instrument_id_instrument[id]]_vars

\* A Meter's registry holds two entries: the first one has lived through
\* the creation of the second.
C13_Witness ==
    \E m \in 1..Len(meterObjs) :
        \E id1, id2 \in DOMAIN meterObjs[m].instrument_id_instrument :
            /\ id1 # id2
            /\ meterObjs[m].instrument_id_instrument[id1] #
                   meterObjs[m].instrument_id_instrument[id2]

\* Thread t is past the not-registered check of a create_<kind> call: it
\* constructs its Instrument or is about to insert it.
Creating(t) == pc[t] \in {"cr_construct", "cr_insert_lock", "cr_insert"}

\* C14 (as claimed): the existence check is a read of the registry, apart
\* from the insert, so a call that runs the check while the registry holds
\* no Instrument for its identity passes it as not registered, also when
\* another call with that identity is between its check and its insert.
C14_CheckReadsRegistry ==
    [][\A t \in Threads :
          (/\ IsInstrumentRegistered(t)
           /\ InstrumentId(local[t].name, local[t].cls, local[t].unit,
                           local[t].description)
                  \notin DOMAIN meterObjs[local[t].meter].instrument_id_instrument)
              => pc'[t] = "cr_construct"]_vars

\* C14 (amended): of the create_<kind> calls with one identity on one Meter
\* at most one is ever past the not-registered check; an insert never hits
\* an identity the registry already maps; and every Instrument constructed
\* is in a registry or in the hands of the call about to insert it.
C14_OneCallConstructs ==
    /\ [](/\ \A t, u \in Threads :
                (/\ t # u /\ Creating(t) /\ Creating(u)
                 /\ local[t].meter = local[u].meter)
                    => local[t].instrument_id # local[u].instrument_id
          /\ \A i \in 1..Len(instruments) :
                \/ \E m \in 1..Len(meterObjs) :
                       \E id \in DOMAIN meterObjs[m].instrument_id_instrument :
                           meterObjs[m].instrument_id_instrument[id] = i
                \/ \E t \in Threads :
                       /\ pc[t] \in {"cr_insert_lock", "cr_insert"}
                       /\ local[t].instrument = i)
    /\ [][\A t \in Threads :
              CreateInsert(t) =>
                  local[t].instrument_id \notin
                      DOMAIN meterObjs[local[t].meter].instrument_id_instrument]_vars

\* Two calls with one identity run at once: one has constructed its
\* Instrument and not inserted it yet, the other found the identity
\* registered and is on the return-existing branch.
C14_Witness ==
    \E t, u \in Threads :
        /\ pc[t] = "cr_insert_lock"
        /\ pc[u] = "cr_warn"
        /\ local[t].meter = local[u].meter
        /\ local[t].instrument_id = local[u].instrument_id
        /\ local[t].instrument = Len(instruments)

\* C15 (as claimed): create_<kind> calls on one Meter with the same kind,
\* unit and description and the raw names "a.b" and "a#b", which sanitize
\* to the same backend identifier, both succeed and return two distinct
\* Instruments.
C15_RawNamesAreDistinct ==
    \A e1, e2 \in instrReturns :
        (/\ e1[1] = e2[1] /\ e1[3] = e2[3] /\ e1[4] = e2[4] /\ e1[5] = e2[5]
         /\ e1[2] = <<"a", ".", "b">> /\ e2[2] = <<"a", "#", "b">>)
        => /\ e1[6] = "returned" /\ e2[6] = "returned"
           /\ e1[7] # e2[7]

\* The locks thread t holds: the provider lock, Meters' registry locks, the
\* shard-mapping lock.
LocksHeld(t) ==
    (IF meter_lock = t THEN {"provider"} ELSE {})
    \cup {<<"meter", m>> : m \in {n \in 1..Len(meterObjs) : meterObjs[n].lock = t}}
    \cup (IF shard_lock = t THEN {"shard"} ELSE {})

\* Thread t constructs the Meter for a new scope.
ConstructsMeter(t) == GetMeterInsert(t) /\ ~local[t].found

\* Thread t constructs an Instrument with its backend storage object, calls
\* into backend storage, or emits a log line.
BackendOrLogStep(t) ==
    \/ \E name \in {n \in MeterNames : NameMissing(n)}, version \in Versions,
          schema_url \in SchemaUrls :
           GetMeterCall(t, name, version, schema_url)
    \/ CreateWarn(t)
    \/ CreateConstruct(t)
    \/ Record(t)
    \/ MergeShard(t)

\* C16 (as claimed): no thread holds a lock while it constructs a Meter or a
\* backend storage object, calls into backend storage or logs; in
\* particular the provider lock is released before the Meter for a new
\* scope is constructed.
C16_NoLockAcrossCalls ==
    [][\A t \in Threads :
          (ConstructsMeter(t) \/ BackendOrLogStep(t)) => LocksHeld(t) = {}]_vars

\* C16 (amended): no thread holds a lock while it constructs an Instrument
\* with its backend storage object, calls into backend storage or logs; the
\* Meter for a new scope is constructed by a thread that holds the provider
\* lock and no other.
C16_OnlyMeterBuiltUnderLock ==
    /\ [][\A t \in Threads : BackendOrLogStep(t) => LocksHeld(t) = {}]_vars
    /\ [][\A t \in Threads : ConstructsMeter(t) => LocksHeld(t) = {"provider"}]_vars

\* A thread has just constructed the Meter for a new scope and still holds
\* the provider lock, while the other thread has read a child's samples in
\* a traversal, holding no lock.
C16_Witness ==
    \E t, u \in Threads :
        /\ pc[t] = "gm_return" /\ ~local[t].found
        /\ local[t].scope \in DOMAIN meters
        /\ LocksHeld(t) = {"provider"}
        /\ pc[u] = "ms_iter" /\ Len(trav[u].out) >= 1
        /\ LocksHeld(u) = {}

\* C17 (as claimed): no thread ever holds two locks at once, and a
\* get_meter, create_<kind> or sample-merger call that is over has returned
\* and has released every lock it took.
C17_CallsReturnLockFree ==
    /\ \A t \in Threads : Cardinality(LocksHeld(t)) <= 1
    /\ \A t \in Threads :
           (pc[t] = "idle" /\ result[t].op \in {"get_meter", "create", "samples"})
               => /\ result[t].status = "returned"
                  /\ LocksHeld(t) = {}

\* The label values of the shards the Samples in out come from.
ShardsIn(out) == {out[j].labels[1][2] : j \in 1..Len(out)}

\* C18: each traversal copies the mapping while it holds the lock and walks
\* only that copy: the copy is the mapping as it was when taken (the
\* mapping having only grown since), the shards yielded so far are exactly
\* the copy's items walked so far, and a shard another thread adds leaves
\* every traversal's copy and output as they are; a copy taken afterwards
\* has the new shard.
C18_SnapshotIsolation ==
    /\ [](\A t \in Threads :
              trav[t].k >= 1 =>
                  /\ trav[t].k <= Len(trav[t].metrics) + 1
                  /\ Len(trav[t].metrics) <= Len(shard_metrics)
                  /\ trav[t].metrics = SubSeq(shard_metrics, 1, Len(trav[t].metrics))
                  /\ ShardsIn(trav[t].out) =
                         {trav[t].metrics[i].labels[1] : i \in 1..(trav[t].k - 1)})
    /\ [][\A t \in Threads :
              MergeCopy(t) => shard_lock = t /\ trav'[t].metrics = shard_metrics]_vars
    /\ [][\A t \in Threads :
              (\E labelvalue \in LabelValues, kind \in ChildKinds :
                   AddShard(t, labelvalue, kind))
                  => trav' = trav]_vars
    /\ [][\A t \in Threads :
              MergeDone(t) => trav[t].k = Len(trav[t].metrics) + 1]_vars

\* One thread took its copy with one shard and has finished without the
\* shard added since; the other thread, started later, has both shards.
C18_Witness ==
    \E t, u \in Threads :
        /\ Len(shard_metrics) = 2
        /\ pc[t] = "idle" /\ result[t].op = "samples"
        /\ Len(trav[t].metrics) = 1
        /\ ShardsIn(trav[t].out) = {shard_metrics[1].labels[1]}
        /\ Len(trav[u].metrics) = 2
        /\ ShardsIn(trav[u].out) =
               {shard_metrics[1].labels[1], shard_metrics[2].labels[1]}

\* C19 (as claimed): whenever a create_<kind> call is on the
\* return-existing branch and looks its identity up, the Meter's mapping
\* holds an Instrument for it, and no such call ends in a failed lookup.
C19_ExistingLookupSucceeds ==
    /\ \A t \in Threads :
           pc[t] = "cr_existing" =>
               local[t].instrument_id \in
                   DOMAIN meterObjs[local[t].meter].instrument_id_instrument
    /\ \A e \in instrReturns : e[6] # "KeyError"

\* C20: the effect of add, set and record does not depend on attributes:
\* every recording on an Instrument, whatever label set or none it is given,
\* goes to the one backend series of that Instrument, and the values it
\* leaves there are those the amount alone determines (an amount of 7 falls
\* into the third bucket, of bound 10).
C20_AttributesIgnored ==
    /\ [](\A r \in recordings :
              r[3] = [family |-> instruments[r[1]].metric, labels |-> "None"])
    /\ [][\A t \in Threads, i \in 1..Len(instruments), amount \in {-5, 7},
            attributes \in Attributes :
              /\ (CounterAdd(t, i, amount, attributes) /\ amount >= 0)
                     => instruments'[i].value = instruments[i].value + amount
              /\ UpDownCounterAdd(t, i, amount, attributes)
                     => instruments'[i].value = instruments[i].value + amount
              /\ GaugeSet(t, i, amount, attributes)
                     => instruments'[i].value = amount
              /\ (HistogramRecord(t, i, amount, attributes) /\ amount >= 0)
                     => /\ instruments'[i].sum = instruments[i].sum + amount
                        /\ instruments'[i].buckets =
                               [instruments[i].buckets EXCEPT ![3] = @ + 1]]_vars

\* An up-down counter has been recorded on with no attributes and with two
\* different label sets: once each, 7 every time.
C20_Witness ==
    \E i \in 1..Len(instruments) :
        /\ instruments[i].cls = "PrometheusUpDownCounter"
        /\ {r[2] : r \in {x \in recordings : x[1] = i}} = Attributes
        /\ instruments[i].value = 21

====
